---- MODULE Spec2Model ----
(***************************************************************************)
(* A model of package archive (outofforest/archive): Inflate and its four  *)
(* pipelines (InflateTar, InflateTarGz, InflateTarXz, InflateZip), the     *)
(* helpers ensureDir / ensureFileInDir / ensureFileDir, drain, and the     *)
(* HashingReader.                                                          *)
(*                                                                         *)
(* The filesystem is a function from absolute paths (sequences of path     *)
(* components, <<>> being "/") to nodes: directories, regular files        *)
(* (a reference to an inode holding the bytes) and symbolic links.  The    *)
(* os.* calls the package makes are operators on a "world" record          *)
(* [fs, ino]; each returns [w, err], err = "" meaning nil.  The process    *)
(* is an unprivileged user: a directory without the owner's read bit       *)
(* cannot be listed, which is what makes os.RemoveAll fail.                *)
(***************************************************************************)
EXTENDS Integers, Sequences, FiniteSets, TLC

\* ------------------------------------------------------------------ bounds

\* Entries one call reads from its archive before the model stops feeding it.
MaxEntries == 3
\* Symbolic links the kernel follows in one path resolution (ELOOP beyond).
MaxFollow == 2
\* Bytes of the stream given to a HashingReader.
MaxStream == 3
\* Entries each of two calls running together reads.
MaxShared == 2

\* ------------------------------------------------------------------- paths

Root == <<>>

Last(s) == s[Len(s)]

Front(s) == SubSeq(s, 1, Len(s) - 1)

IsPrefix(a, b) == Len(a) <= Len(b) /\ SubSeq(b, 1, Len(a)) = a

\* p is q or lies below q
Under(p, q) == IsPrefix(q, p)

RECURSIVE CleanFrom(_, _)
\* filepath.Clean of the rooted path acc/raw: "." is dropped, ".." removes the
\* component before it ("/.." is "/").
CleanFrom(acc, raw) ==
    IF raw = <<>> THEN acc
    ELSE IF Head(raw) = "." THEN CleanFrom(acc, Tail(raw))
    ELSE IF Head(raw) = ".." THEN
        CleanFrom(IF acc = <<>> THEN acc ELSE Front(acc), Tail(raw))
    ELSE CleanFrom(Append(acc, Head(raw)), Tail(raw))

\* filepath.Join(dir, file) for an absolute dir: Clean(dir + "/" + file)
Join(dir, file) == CleanFrom(<<>>, dir \o file)

\* filepath.Dir of a clean absolute path
Dir(p) == IF p = <<>> THEN p ELSE Front(p)

RECURSIVE CommonLen(_, _)
CommonLen(a, b) ==
    IF a = <<>> \/ b = <<>> \/ Head(a) # Head(b) THEN 0
    ELSE 1 + CommonLen(Tail(a), Tail(b))

\* filepath.Rel(base, targ) for clean absolute paths: one ".." for every
\* component of base that is not shared, then the rest of targ.
Rel(base, targ) ==
    LET n == CommonLen(base, targ)
    IN  [i \in 1..(Len(base) - n) |-> ".."] \o SubSeq(targ, n + 1, Len(targ))

\* The components of the model whose text begins with "..": what
\* strings.HasPrefix(rel, "..") sees at the start of rel.
DotDotNames == {"..", "..a"}

HasDotDotPrefix(rel) == rel # <<>> /\ Head(rel) \in DotDotNames

\* path + suffix on the path's text: the suffix lands on the last component
AddSuffix(p, s) == [p EXCEPT ![Len(p)] = @ \o s]

\* ------------------------------------------------------------- filesystem

DirNode(m) == [k |-> "dir", m |-> m]

FileNode(i) == [k |-> "file", ino |-> i]

LinkNode(t) == [k |-> "link", to |-> t]

World(fs, ino) == [fs |-> fs, ino |-> ino]

Ok(w) == [w |-> w, err |-> ""]

Fail(w, e) == [w |-> w, err |-> e]

Exists(w, p) == p \in DOMAIN w.fs

IsDir(w, p) == Exists(w, p) /\ w.fs[p].k = "dir"

IsFile(w, p) == Exists(w, p) /\ w.fs[p].k = "file"

IsLink(w, p) == Exists(w, p) /\ w.fs[p].k = "link"

Content(w, p) == w.ino[w.fs[p].ino]

\* fs with path p bound to node n
Bind(fs, p, n) == [q \in (DOMAIN fs) \cup {p} |-> IF q = p THEN n ELSE fs[q]]

RECURSIVE Walk(_, _, _, _, _)
\* The kernel's path resolution from directory cur along the components raw:
\* ".." is the parent of the directory reached (not of the text), a symbolic
\* link met on the way is followed, and the last component's link is followed
\* only with follow.  st = "ok": p exists; "new": p does not exist and its
\* parent directory does; "err": the walk failed (ENOENT, ENOTDIR, ELOOP).
Walk(w, cur, raw, follow, fuel) ==
    IF raw = <<>> THEN [st |-> "ok", p |-> cur]
    ELSE IF Head(raw) = "." THEN Walk(w, cur, Tail(raw), follow, fuel)
    ELSE IF Head(raw) = ".." THEN Walk(w, Dir(cur), Tail(raw), follow, fuel)
    ELSE LET nxt == Append(cur, Head(raw))
             rest == Tail(raw)
         IN  IF ~Exists(w, nxt) THEN
                 IF rest = <<>> THEN [st |-> "new", p |-> nxt]
                 ELSE [st |-> "err", p |-> nxt]
             ELSE IF w.fs[nxt].k = "dir" THEN Walk(w, nxt, rest, follow, fuel)
             ELSE IF w.fs[nxt].k = "file" THEN
                 IF rest = <<>> THEN [st |-> "ok", p |-> nxt]
                 ELSE [st |-> "err", p |-> nxt]
             ELSE IF rest = <<>> /\ ~follow THEN [st |-> "ok", p |-> nxt]
             ELSE IF fuel = 0 THEN [st |-> "err", p |-> nxt]
             ELSE Walk(w, cur, w.fs[nxt].to \o rest, follow, fuel - 1)

\* os.Stat / open(2): resolution following every link
Stat(w, raw) == Walk(w, Root, raw, TRUE, MaxFollow)

\* os.Lstat / O_EXCL / link(2) / symlink(2): the last component is not followed
Lstat(w, raw) == Walk(w, Root, raw, FALSE, MaxFollow)

\* os.Mkdir(p, mode)
Mkdir(w, p, m) ==
    LET r == Lstat(w, p)
    IN  IF r.st = "new" THEN Ok(World(Bind(w.fs, r.p, DirNode(m)), w.ino))
        ELSE IF r.st = "ok" /\ IsDir(w, r.p) THEN Ok(w)
        ELSE Fail(w, "mkdir")

RECURSIVE MkdirAll(_, _, _)
\* os.MkdirAll(p, mode): nil when p is (or resolves to) a directory, an error
\* when it is something else; otherwise the parents first, then p itself, every
\* directory made getting the same mode.
MkdirAll(w, p, m) ==
    LET s == Stat(w, p)
    IN  IF s.st = "ok" THEN (IF IsDir(w, s.p) THEN Ok(w) ELSE Fail(w, "mkdir"))
        ELSE IF p = <<>> THEN Ok(w)
        ELSE LET r == MkdirAll(w, Dir(p), m)
             IN  IF r.err # "" THEN r ELSE Mkdir(r.w, p, m)

\* What a write of data at offset 0 leaves in a file that held old: the
\* bytes past the written ones stay.
WriteAt0(old, data) ==
    IF Len(data) >= Len(old) THEN data
    ELSE data \o SubSeq(old, Len(data) + 1, Len(old))

\* os.OpenFile(p, O_CREATE|O_WRONLY, mode) followed by io.Copy(f, data):
\* the file is created when missing (through a dangling link too) and
\* written from offset 0.
WriteFile(w, p, data) ==
    LET r == Stat(w, p)
    IN  IF r.st = "new" THEN
            Ok(World(Bind(w.fs, r.p, FileNode(Len(w.ino) + 1)), Append(w.ino, data)))
        ELSE IF r.st = "ok" /\ IsFile(w, r.p) THEN
            Ok(World(w.fs, [w.ino EXCEPT ![w.fs[r.p].ino] = WriteAt0(@, data)]))
        ELSE Fail(w, "open")

\* os.Create(p) followed by io.Copy: O_TRUNC, so the file holds data alone
CreateFile(w, p, data) ==
    LET r == Stat(w, p)
    IN  IF r.st = "new" THEN
            Ok(World(Bind(w.fs, r.p, FileNode(Len(w.ino) + 1)), Append(w.ino, data)))
        ELSE IF r.st = "ok" /\ IsFile(w, r.p) THEN
            Ok(World(w.fs, [w.ino EXCEPT ![w.fs[r.p].ino] = data]))
        ELSE Fail(w, "open")

\* os.OpenFile(raw, O_CREATE|O_EXCL, mode): an empty file, "exist" when the
\* name is taken
CreateExcl(w, raw) ==
    LET r == Lstat(w, raw)
    IN  IF r.st = "new" THEN
            Ok(World(Bind(w.fs, r.p, FileNode(Len(w.ino) + 1)), Append(w.ino, <<>>)))
        ELSE IF r.st = "ok" THEN Fail(w, "exist")
        ELSE Fail(w, "open")

\* os.Symlink(target, p)
Symlink(w, target, p) ==
    LET r == Lstat(w, p)
    IN  IF r.st = "new" THEN Ok(World(Bind(w.fs, r.p, LinkNode(target)), w.ino))
        ELSE Fail(w, "symlink")

\* os.Link(old, new): new becomes another name of old's inode
Link(w, old, new) ==
    LET o == Lstat(w, old)
        n == Lstat(w, new)
    IN  IF o.st = "ok" /\ ~IsDir(w, o.p) /\ n.st = "new"
        THEN Ok(World(Bind(w.fs, n.p, w.fs[o.p]), w.ino))
        ELSE Fail(w, "link")

\* os.Rename(old, new) of a directory: Go refuses an existing directory at new
\* (EEXIST) and rename(2) refuses anything else there (ENOTDIR).
Rename(w, old, new) ==
    IF ~Exists(w, old) \/ Exists(w, new) \/ ~IsDir(w, Dir(new)) THEN Fail(w, "rename")
    ELSE LET keep == {q \in DOMAIN w.fs : ~Under(q, old)}
             moved == {q \in DOMAIN w.fs : Under(q, old)}
             To(q) == new \o SubSeq(q, Len(old) + 1, Len(q))
             From(q) == old \o SubSeq(q, Len(new) + 1, Len(q))
         IN  Ok(World([q \in keep \cup {To(x) : x \in moved} |->
                          IF q \in keep THEN w.fs[q] ELSE w.fs[From(q)]],
                      w.ino))

\* The directories below (or at) p that os.RemoveAll cannot empty: it has to
\* list a directory to unlink what is in it, and listing needs the read bit.
Stuck(w, p) ==
    {d \in DOMAIN w.fs :
        /\ Under(d, p)
        /\ w.fs[d].k = "dir"
        /\ w.fs[d].m = "-wx"
        /\ \E q \in DOMAIN w.fs : q # d /\ Under(q, d)}

\* os.RemoveAll(p): everything at and below p goes, but for what lies in a
\* directory it could not list and the directories leading to it.
RemoveAll(w, p) ==
    LET stuck == Stuck(w, p)
        stays(q) == \E d \in stuck : Under(q, d) \/ Under(d, q)
        gone == {q \in DOMAIN w.fs : Under(q, p) /\ ~stays(q)}
    IN  [w |-> World([q \in (DOMAIN w.fs) \ gone |-> w.fs[q]], w.ino),
         err |-> IF stuck = {} THEN "" ELSE "removeall"]

\* os.Remove(p) of a file
Remove(w, p) ==
    IF Exists(w, p) /\ ~IsDir(w, p)
    THEN Ok(World([q \in (DOMAIN w.fs) \ {p} |-> w.fs[q]], w.ino))
    ELSE Fail(w, "remove")

\* ---------------------------------------------------------------- helpers

\* ensureDir(dir): MkdirAll(dir, 0o700), then filepath.Abs and
\* filepath.EvalSymlinks: the canonical path of the directory
ensureDir(w, dir) ==
    LET r == MkdirAll(w, dir, "rwx")
        s == Stat(r.w, dir)
    IN  IF r.err # "" THEN [w |-> r.w, err |-> r.err, dir |-> <<>>]
        ELSE IF s.st # "ok" THEN [w |-> r.w, err |-> "evalsymlinks", dir |-> <<>>]
        ELSE [w |-> r.w, err |-> "", dir |-> s.p]

\* ensureFileInDir's test of the relative path from dir to the joined file
Escapes(dir, file) == HasDotDotPrefix(Rel(dir, file))

\* ensureFileInDir(dir, file): the joined path; skip when it is dir itself
\* (a "./" entry); an error when the relative path from dir to it starts
\* with "..".
ensureFileInDir(dir, file) ==
    LET f == Join(dir, file)
    IN  IF f = dir THEN [file |-> <<>>, skip |-> TRUE, err |-> ""]
        ELSE IF Escapes(dir, f) THEN [file |-> <<>>, skip |-> FALSE, err |-> "outside"]
        ELSE [file |-> f, skip |-> FALSE, err |-> ""]

\* ensureFileDir(file): MkdirAll(filepath.Dir(file), 0o700)
ensureFileDir(w, file) == MkdirAll(w, Dir(file), "rwx")

\* ------------------------------------------------------------ tar entries

\* header.Linkname = path + "/" + header.Linkname: the text, not cleaned
LinkTarget(path, linkname) == path \o linkname

\* case tar.TypeDir
TarDir(w, file, h) == MkdirAll(w, file, h.mode)

\* case tar.TypeReg
TarReg(w, file, h) ==
    LET d == ensureFileDir(w, file)
    IN  IF d.err # "" THEN d ELSE WriteFile(d.w, file, h.data)

\* case tar.TypeSymlink
TarSymlink(w, file, h) ==
    LET d == ensureFileDir(w, file)
    IN  IF d.err # "" THEN d ELSE Symlink(d.w, h.link, file)

\* case tar.TypeLink: the target's directory is made, the target is created
\* empty unless it exists, and file becomes a hard link to it.
TarLink(w, path, file, h) ==
    LET target == LinkTarget(path, h.link)
        d1 == ensureFileDir(w, file)
        d2 == MkdirAll(d1.w, CleanFrom(<<>>, Front(target)), "rwx")
        c == CreateExcl(d2.w, target)
    IN  IF d1.err # "" THEN d1
        ELSE IF d2.err # "" THEN d2
        ELSE IF c.err \notin {"", "exist"} THEN c
        ELSE Link(c.w, target, file)

\* One turn of InflateTar's loop for a header tr.Next() returned: the
\* pax_global_header skip, ensureFileInDir, and the switch on Typeflag.
TarEntry(w, path, tmp, h) ==
    IF h.name = <<"pax_global_header">> THEN Ok(w)
    ELSE LET f == ensureFileInDir(tmp, h.name)
         IN  IF f.err # "" THEN Fail(w, f.err)
             ELSE IF f.skip THEN Ok(w)
             ELSE IF h.kind = "dir" THEN TarDir(w, f.file, h)
             ELSE IF h.kind = "reg" THEN TarReg(w, f.file, h)
             ELSE IF h.kind = "symlink" THEN TarSymlink(w, f.file, h)
             ELSE IF h.kind = "link" THEN TarLink(w, path, f.file, h)
             ELSE Fail(w, "unsupported")

\* ------------------------------------------------------------ zip entries

\* One turn of InflateZip's loop for a file of the catalog: zf.Open() (which
\* fails for a compression method the reader does not know), ensureFileInDir,
\* then a directory or a regular file.
ZipEntry(w, tmp, zf) ==
    IF zf.kind = "other" THEN Fail(w, "zipopen")
    ELSE LET f == ensureFileInDir(tmp, zf.name)
         IN  IF f.err # "" THEN Fail(w, f.err)
             ELSE IF f.skip THEN Ok(w)
             ELSE IF zf.kind = "dir" THEN MkdirAll(w, f.file, zf.mode)
             ELSE LET d == ensureFileDir(w, f.file)
                  IN  IF d.err # "" THEN d ELSE WriteFile(d.w, f.file, zf.data)

\* ---------------------------------------------------------------- Inflate

RECURSIVE HasSuffix(_, _)
\* strings.HasSuffix(s, suffix) on sequences of characters
HasSuffix(s, suffix) ==
    IF suffix = <<>> THEN TRUE
    ELSE IF s = <<>> THEN FALSE
    ELSE Last(s) = Last(suffix) /\ HasSuffix(Front(s), Front(suffix))

DotTar == <<".", "t", "a", "r">>

DotTarGz == <<".", "t", "a", "r", ".", "g", "z">>

DotTgz == <<".", "t", "g", "z">>

DotTarXz == <<".", "t", "a", "r", ".", "x", "z">>

DotZip == <<".", "z", "i", "p">>

\* The switch without the ".tgz" alternative
PipelineNoTgz(name) ==
    IF HasSuffix(name, DotTar) THEN "tar"
    ELSE IF HasSuffix(name, DotTarGz) THEN "targz"
    ELSE IF HasSuffix(name, DotTarXz) THEN "tarxz"
    ELSE IF HasSuffix(name, DotZip) THEN "zip"
    ELSE "unknown"

\* Inflate's switch on the name: the pipeline it calls, "unknown" for the
\* default case
Pipeline(name) ==
    IF HasSuffix(name, DotTar) THEN "tar"
    ELSE IF HasSuffix(name, DotTarGz) \/ HasSuffix(name, DotTgz) THEN "targz"
    ELSE IF HasSuffix(name, DotTarXz) THEN "tarxz"
    ELSE IF HasSuffix(name, DotZip) THEN "zip"
    ELSE "unknown"

\* ----------------------------------------------------------------- inputs

Entry(name, kind, link, data, mode) ==
    [name |-> name, kind |-> kind, link |-> link, data |-> data, mode |-> mode]

\* The headers an archive of the model is made of.
Catalogue ==
    { Entry(<<"d">>, "dir", <<>>, <<>>, "rwx"),
      Entry(<<"d">>, "dir", <<>>, <<>>, "-wx"),
      Entry(<<".">>, "dir", <<>>, <<>>, "rwx"),
      Entry(<<"a">>, "reg", <<>>, <<1, 2>>, "rwx"),
      Entry(<<"a">>, "reg", <<>>, <<3>>, "rwx"),
      Entry(<<"d", "a">>, "reg", <<>>, <<1>>, "rwx"),
      Entry(<<"l", "x">>, "reg", <<>>, <<1>>, "rwx"),
      Entry(<<"..", "x">>, "reg", <<>>, <<1>>, "rwx"),
      Entry(<<"a", "..", "b">>, "reg", <<>>, <<1>>, "rwx"),
      Entry(<<"..a">>, "reg", <<>>, <<1>>, "rwx"),
      Entry(<<"l">>, "symlink", <<"a">>, <<>>, "rwx"),
      Entry(<<"l">>, "symlink", <<"..">>, <<>>, "rwx"),
      Entry(<<"h">>, "link", <<"a">>, <<>>, "rwx"),
      Entry(<<"h">>, "link", <<"..", "x">>, <<>>, "rwx"),
      Entry(<<"c">>, "other", <<>>, <<>>, "rwx"),
      Entry(<<"pax_global_header">>, "other", <<>>, <<>>, "rwx") }

\* The tree of the round trip: a regular file, an empty directory, a
\* symbolic link and a hard link to the file.
TreeFile == Entry(<<"a">>, "reg", <<>>, <<1, 2>>, "rwx")

TreeDir == Entry(<<"d">>, "dir", <<>>, <<>>, "rwx")

TreeSymlink == Entry(<<"l">>, "symlink", <<"a">>, <<>>, "rwx")

TreeLink == Entry(<<"h">>, "link", <<"a">>, <<>>, "rwx")

Tree == {TreeFile, TreeDir, TreeSymlink, TreeLink}

\* The headers of the two calls that run together.
Shared ==
    { Entry(<<"a">>, "reg", <<>>, <<1, 2>>, "rwx"),
      Entry(<<"h">>, "link", <<"a">>, <<>>, "rwx"),
      Entry(<<"c">>, "other", <<>>, <<>>, "rwx") }

\* The bytes of a link target's text ("a", ".."), as a zip payload holds it
TextBytes(link) == IF link = <<"a">> THEN <<97>> ELSE <<46, 46>>

\* What a zip archive holds for a header: a hard link is packed as a copy
\* of the file, a symbolic link as a file whose payload is the target's text.
ZipOf(e) ==
    IF e.kind = "link" THEN Entry(e.name, "reg", <<>>, TreeFile.data, e.mode)
    ELSE IF e.kind = "symlink" THEN Entry(e.name, "reg", <<>>, TextBytes(e.link), e.mode)
    ELSE e

\* Source names given to Inflate, as sequences of characters.
Names ==
    { <<"a">> \o DotTar, <<"a">> \o DotTarGz, <<"a">> \o DotTgz,
      <<"a">> \o DotTarXz, <<"a">> \o DotZip,
      <<"a">> \o DotZip \o DotTar, <<"a">> \o DotTar \o DotZip,
      <<"a", ".", "r", "a", "r">>, <<"t", "a", "r">>, <<"a", "t", "g", "z">>,
      <<"a">> \o DotTar \o <<".">>, <<"a", ".", "g", "z">>,
      <<"a", ".", "x", "z">>, <<"a", ".", "T", "A", "R">>, <<>> }

\* ------------------------------------------------------------------ state

VARIABLES
    fs,        \* the filesystem: path -> node
    ino,       \* the inodes: the bytes of every regular file
    scenario,  \* which archives the calls are given: "any", "tree", "shared"
    pc,        \* where each call is
    name,      \* Inflate's name argument
    dest,      \* Inflate's path argument
    pipe,      \* the pipeline Inflate chose
    tmp,       \* tmpPath, once ensureDir returned it (<<>> before)
    spool,     \* tempFile.Name(), once the zip spool file was created
    read,      \* the headers read from the archive so far
    src,       \* the original stream: "open", "tail", "eof", "err"
    ret,       \* the error the call returned ("" is nil)
    promoted,  \* os.Rename(tmpPath, path) succeeded
    touched,   \* the paths each call created, changed, moved or removed
    hr         \* the HashingReader and its source

vars == <<fs, ino, scenario, pc, name, dest, pipe, tmp, spool, read, src,
          ret, promoted, touched, hr>>

Procs == {1, 2}

W == World(fs, ino)

\* The paths two worlds differ at
Diff(a, b) ==
    {q \in (DOMAIN a.fs) \cup (DOMAIN b.fs) :
        \/ ~(Exists(a, q) /\ Exists(b, q))
        \/ a.fs[q].k # b.fs[q].k
        \/ (a.fs[q].k = "file" /\ Content(a, q) # Content(b, q))
        \/ (a.fs[q].k = "link" /\ a.fs[q] # b.fs[q])}

Range(s) == {s[i] : i \in DOMAIN s}

\* The headers the archive of call p may hold next.
Avail(p) ==
    LET base == IF scenario = "tree" THEN Tree
                ELSE IF scenario = "shared" THEN Shared
                ELSE Catalogue
        packed == IF pipe[p] = "zip"
                  THEN {ZipOf(e) : e \in {x \in base : scenario = "tree" \/ x.kind # "link"}}
                  ELSE base
    IN  IF scenario = "tree" THEN packed \ Range(read[p])
        ELSE IF scenario = "shared" THEN
            (IF Len(read[p]) < MaxShared THEN packed ELSE {})
        ELSE IF Len(read[p]) < MaxEntries THEN packed
        ELSE {}

\* ------------------------------------------------------- the pipelines

Set(f, p, v) == [f EXCEPT ![p] = v]

\* The filesystem becomes w2 by a step of call p
Becomes(p, w2) ==
    /\ fs' = w2.fs
    /\ ino' = w2.ino
    /\ touched' = Set(touched, p, touched[p] \cup Diff(W, w2))

\* The deferred func of InflateTar and InflateZip:
\* if retErr != nil { _ = os.RemoveAll(tmpPath) }
Cleanup(w, t, err) == IF err # "" THEN RemoveAll(w, t).w ELSE w

\* defer os.Remove(tempFile.Name()), once the spool file was created
Unspool(w, sp) == IF sp = <<>> THEN w ELSE Remove(w, sp).w

\* Inflate(name, reader, path): the switch on name
Inflate(p) ==
    /\ pc[p] = "call"
    /\ LET pl == Pipeline(name[p])
       IN  /\ pipe' = Set(pipe, p, pl)
           /\ pc' = Set(pc, p, IF pl = "tar" THEN "tar"
                               ELSE IF pl \in {"targz", "tarxz"} THEN "newreader"
                               ELSE IF pl = "zip" THEN "zip"
                               ELSE "done")
           /\ ret' = Set(ret, p, IF pl = "unknown" THEN "unknown" ELSE "")
    /\ UNCHANGED <<fs, ino, scenario, name, dest, tmp, spool, read, src,
                   promoted, touched, hr>>

\* InflateTarGz / InflateTarXz: gzip.NewReader(reader) / xz.NewReader(reader),
\* which fails on a stream that does not start with the format's header
NewReader(p) ==
    /\ pc[p] = "newreader"
    /\ \E ok \in BOOLEAN :
          /\ pc' = Set(pc, p, IF ok THEN "tar" ELSE "done")
          /\ ret' = Set(ret, p, IF ok THEN "" ELSE "header")
    /\ UNCHANGED <<fs, ino, scenario, name, dest, pipe, tmp, spool, read,
                   src, promoted, touched, hr>>

\* InflateTar up to its loop: tmpPath, err := ensureDir(path + ".tmp")
TarBegin(p) ==
    /\ pc[p] = "tar"
    /\ LET e == ensureDir(W, AddSuffix(dest[p], ".tmp"))
       IN  /\ Becomes(p, e.w)
           /\ tmp' = Set(tmp, p, e.dir)
           /\ pc' = Set(pc, p, IF e.err = "" THEN "next" ELSE "done")
           /\ ret' = Set(ret, p, e.err)
    /\ UNCHANGED <<scenario, name, dest, pipe, spool, read, src, promoted, hr>>

\* InflateTar returns err from inside its loop: the deferred cleanup runs
TarReturn(p, w, err) ==
    /\ Becomes(p, Cleanup(w, tmp[p], err))
    /\ pc' = Set(pc, p, "done")
    /\ ret' = Set(ret, p, err)

\* tr.Next() returned a header: one turn of the loop
TarHeader(p) ==
    /\ pc[p] = "next"
    /\ \E h \in Avail(p) :
          LET r == TarEntry(W, dest[p], tmp[p], h)
          IN  /\ read' = Set(read, p, Append(read[p], h))
              /\ IF r.err = ""
                 THEN Becomes(p, r.w) /\ UNCHANGED <<pc, ret>>
                 ELSE TarReturn(p, r.w, r.err)
    /\ UNCHANGED <<scenario, name, dest, pipe, tmp, spool, src, promoted, hr>>

\* tr.Next() returned an error other than io.EOF
TarBadHeader(p) ==
    /\ pc[p] = "next"
    /\ TarReturn(p, W, "tar")
    /\ UNCHANGED <<scenario, name, dest, pipe, tmp, spool, read, src,
                   promoted, hr>>

\* What drain(reader) at the end of InflateTar can leave of the original
\* stream.  Plain tar and gzip: the stream is read to io.EOF or to an error
\* (gzip looks for a next member until its source ends).  Xz: the
\* decompressor may also stop before the original stream's end ("tail"), which
\* is why the callers drain the original stream again.
DrainEnds(p) ==
    IF pipe[p] = "tarxz" THEN {"tail", "eof", "err"} ELSE {"eof", "err"}

\* tr.Next() returned io.EOF: drain(reader), then os.Rename(tmpPath, path)
TarEof(p) ==
    /\ pc[p] = "next"
    /\ \E o \in DrainEnds(p) :
          LET r == Rename(W, tmp[p], dest[p])
          IN  /\ src' = Set(src, p, o)
              /\ IF o = "err" THEN TarReturn(p, W, "read") /\ UNCHANGED promoted
                 ELSE IF r.err # "" THEN TarReturn(p, r.w, r.err) /\ UNCHANGED promoted
                 ELSE /\ Becomes(p, r.w)
                      /\ promoted' = Set(promoted, p, TRUE)
                      /\ pc' = Set(pc, p, IF pipe[p] = "tar" THEN "done" ELSE "outer")
                      /\ ret' = Set(ret, p, "")
    /\ UNCHANGED <<scenario, name, dest, pipe, tmp, spool, read, hr>>

\* InflateTarGz / InflateTarXz after InflateTar returned nil:
\* return drain(reader) on the original stream
OuterDrain(p) ==
    /\ pc[p] = "outer"
    /\ \E o \in (IF src[p] = "tail" THEN {"eof", "err"} ELSE {src[p]}) :
          /\ src' = Set(src, p, o)
          /\ ret' = Set(ret, p, IF o = "err" THEN "read" ELSE "")
    /\ pc' = Set(pc, p, "done")
    /\ UNCHANGED <<fs, ino, scenario, name, dest, pipe, tmp, spool, read,
                   promoted, touched, hr>>

\* The bytes of a zip archive, as the spool file holds them
ZipBytes == <<0>>

\* InflateZip returns err: os.Remove of the spool file, then the cleanup
ZipReturn(p, w, t, sp, err) ==
    /\ Becomes(p, Cleanup(Unspool(w, sp), t, err))
    /\ pc' = Set(pc, p, "done")
    /\ ret' = Set(ret, p, err)

\* InflateZip up to its loop: ensureDir, the spool file for a reader that is
\* not an *os.File (os.Create, io.Copy, os.Open), file.Stat and zip.NewReader
ZipBegin(p) ==
    /\ pc[p] = "zip"
    /\ LET e == ensureDir(W, AddSuffix(dest[p], ".tmp"))
           sp == AddSuffix(e.dir, ".zip")
           c == CreateFile(e.w, sp, ZipBytes)
       IN  /\ tmp' = Set(tmp, p, e.dir)
           /\ IF e.err # ""
              THEN /\ Becomes(p, e.w)
                   /\ pc' = Set(pc, p, "done")
                   /\ ret' = Set(ret, p, e.err)
                   /\ UNCHANGED <<spool, src>>
              ELSE \E isFile \in BOOLEAN, copied \in BOOLEAN, catalog \in BOOLEAN :
                   IF isFile
                   THEN /\ UNCHANGED <<spool, src>>
                        /\ IF catalog
                           THEN /\ Becomes(p, e.w)
                                /\ pc' = Set(pc, p, "zipnext")
                                /\ UNCHANGED ret
                           ELSE ZipReturn(p, e.w, e.dir, <<>>, "zip")
                   ELSE IF c.err # ""
                   THEN /\ UNCHANGED <<spool, src>>
                        /\ ZipReturn(p, c.w, e.dir, <<>>, c.err)
                   ELSE /\ spool' = Set(spool, p, sp)
                        /\ src' = Set(src, p, IF copied THEN "eof" ELSE "err")
                        /\ IF ~copied THEN ZipReturn(p, c.w, e.dir, sp, "read")
                           ELSE IF ~catalog THEN ZipReturn(p, c.w, e.dir, sp, "zip")
                           ELSE /\ Becomes(p, c.w)
                                /\ pc' = Set(pc, p, "zipnext")
                                /\ UNCHANGED ret
    /\ UNCHANGED <<scenario, name, dest, pipe, read, promoted, hr>>

\* One file of zipReader.File
ZipFile(p) ==
    /\ pc[p] = "zipnext"
    /\ \E zf \in Avail(p) :
          LET r == ZipEntry(W, tmp[p], zf)
          IN  /\ read' = Set(read, p, Append(read[p], zf))
              /\ IF r.err = ""
                 THEN Becomes(p, r.w) /\ UNCHANGED <<pc, ret>>
                 ELSE ZipReturn(p, r.w, tmp[p], spool[p], r.err)
    /\ UNCHANGED <<scenario, name, dest, pipe, tmp, spool, src, promoted, hr>>

\* After the loop: return errors.WithStack(os.Rename(tmpPath, path))
ZipEnd(p) ==
    /\ pc[p] = "zipnext"
    /\ LET r == Rename(W, tmp[p], dest[p])
       IN  /\ ZipReturn(p, r.w, tmp[p], spool[p], r.err)
           /\ promoted' = Set(promoted, p, r.err = "")
    /\ UNCHANGED <<scenario, name, dest, pipe, tmp, spool, read, src, hr>>

\* ---------------------------------------------------------- HashingReader

\* The hash behind hasher: sha256 stands as a running value of one byte,
\* fed byte by byte by hasher.Write and read by hasher.Sum.
HashInit == 7

HashByte(h, b) == (h * 5 + b + 3) % 256

RECURSIVE HashWrite(_, _)
HashWrite(h, bytes) ==
    IF bytes = <<>> THEN h ELSE HashWrite(HashByte(h, Head(bytes)), Tail(bytes))

HexDigits == <<"0", "1", "2", "3", "4", "5", "6", "7", "8", "9",
               "a", "b", "c", "d", "e", "f">>

UpperDigits == <<"0", "1", "2", "3", "4", "5", "6", "7", "8", "9",
                 "A", "B", "C", "D", "E", "F">>

\* hex.EncodeToString of the one-byte sum
EncodeToString(sum) == <<HexDigits[(sum \div 16) + 1], HexDigits[(sum % 16) + 1]>>

RECURSIVE IndexOf(_, _, _)
\* strings.Index: the place of the first c in s from i on, 0 when there is none
IndexOf(s, c, i) ==
    IF i > Len(s) THEN 0 ELSE IF s[i] = c THEN i ELSE IndexOf(s, c, i + 1)

\* strings.SplitN(checksum, ":", 2): cut at the first ":"
SplitN2(checksum) ==
    LET i == IndexOf(checksum, ":", 1)
    IN  IF i = 0 THEN <<checksum>>
        ELSE <<SubSeq(checksum, 1, i - 1), SubSeq(checksum, i + 1, Len(checksum))>>

\* NewHashingReader(reader, checksum): the error, or the reader's hasher and
\* the checksum it keeps
NewHashingReader(checksum) ==
    LET parts == SplitN2(checksum)
    IN  IF Len(parts) # 2 THEN [err |-> "format", hasher |-> 0, checksum |-> <<>>]
        ELSE IF parts[1] # <<"sha256">>
        THEN [err |-> "algorithm", hasher |-> 0, checksum |-> <<>>]
        ELSE [err |-> "", hasher |-> HashInit, checksum |-> parts[2]]

\* hr.reader.Read returning n bytes: the TeeReader writes them to the hasher
TeeRead(r, n) ==
    [r EXCEPT !.pos = @ + n,
              !.hasher = HashWrite(@, SubSeq(r.stream, r.pos + 1, r.pos + n))]

\* Nothing more read from the source
CopyNothing(r) == r

\* io.Copy(io.Discard, hr.reader): reads hr.reader until its source ends
CopyToDiscard(r) == TeeRead(r, Len(r.stream) - r.pos)

\* ValidateChecksum: the error it returns for reader r
ValidateChecksum(r) ==
    LET d == CopyToDiscard(r)
    IN  IF r.fails THEN "read"
        ELSE IF EncodeToString(d.hasher) # r.checksum THEN "mismatch"
        ELSE ""

Bytes == {0, 1}

Streams == UNION {[1..n -> Bytes] : n \in 0..MaxStream}

\* The digest of a whole stream
Sha256(stream) == HashWrite(HashInit, stream)

Upper(hex) == [i \in DOMAIN hex |->
                 IF \E k \in 1..16 : HexDigits[k] = hex[i]
                 THEN UpperDigits[CHOOSE k \in 1..16 : HexDigits[k] = hex[i]]
                 ELSE hex[i]]

\* The digests a checksum string of the model may carry: those of the
\* streams, in either case, whole or cut short
Digests ==
    LET whole == {EncodeToString(Sha256(s)) : s \in Streams}
    IN  whole \cup {Upper(x) : x \in whole} \cup {SubSeq(x, 1, 1) : x \in whole}

Checksums ==
    {<<"sha256", ":">> \o d : d \in Digests}
        \cup {<<"sha256">> \o d : d \in {EncodeToString(Sha256(<<>>))}}
        \cup {<<"md5", ":">> \o d : d \in {EncodeToString(Sha256(<<>>))}}
        \cup {<<"sha256", ":", ":">> \o d : d \in {EncodeToString(Sha256(<<>>))}}

NoReader == [pc |-> "none"]

\* archive.NewHashingReader(reader, checksum)
HNew ==
    /\ hr.pc = "new"
    /\ LET r == NewHashingReader(hr.spec)
       IN  hr' = [hr EXCEPT !.pc = IF r.err = "" THEN "ready" ELSE "failed",
                            !.ret = r.err,
                            !.hasher = r.hasher,
                            !.checksum = r.checksum]
    /\ UNCHANGED <<fs, ino, scenario, pc, name, dest, pipe, tmp, spool, read,
                   src, ret, promoted, touched>>

\* hr.Read(p) by the consumer: some bytes of what is left of the source
HRead ==
    /\ hr.pc = "ready"
    /\ \E n \in 1..(Len(hr.stream) - hr.pos) : hr' = TeeRead(hr, n)
    /\ UNCHANGED <<fs, ino, scenario, pc, name, dest, pipe, tmp, spool, read,
                   src, ret, promoted, touched>>

\* hr.ValidateChecksum(); at keeps how much had been read when it was called
HValidate ==
    /\ hr.pc = "ready"
    /\ hr' = [CopyToDiscard(hr) EXCEPT !.pc = "validated",
                                       !.ret = ValidateChecksum(hr),
                                       !.at = hr.pos]
    /\ UNCHANGED <<fs, ino, scenario, pc, name, dest, pipe, tmp, spool, read,
                   src, ret, promoted, touched>>

\* --------------------------------------------------------- specifications

D == <<"D">>

\* The filesystem before a call: "/" alone
Fs0 == [q \in {Root} |-> DirNode("rwx")]

Calls(sc, names, dests, started) ==
    /\ fs = Fs0
    /\ ino = <<>>
    /\ scenario = sc
    /\ pc = [p \in Procs |-> IF p \in started THEN "call" ELSE "idle"]
    /\ name \in [Procs -> names]
    /\ \A p \in Procs : p \notin started => name[p] = CHOOSE n \in names : TRUE
    /\ dest \in [Procs -> dests]
    /\ dest[1] = D
    /\ dest[2] # D
    /\ pipe = [p \in Procs |-> ""]
    /\ tmp = [p \in Procs |-> <<>>]
    /\ spool = [p \in Procs |-> <<>>]
    /\ read = [p \in Procs |-> <<>>]
    /\ src = [p \in Procs |-> "open"]
    /\ ret = [p \in Procs |-> ""]
    /\ promoted = [p \in Procs |-> FALSE]
    /\ touched = [p \in Procs |-> {}]

\* One call of Inflate, on any archive of the catalogue
Init == Calls("any", Names, {D, <<"E">>}, {1}) /\ hr = NoReader

\* One call of a pipeline on an archive packed from the tree
PipelineNames ==
    {<<"a">> \o DotTar, <<"a">> \o DotTarGz, <<"a">> \o DotTarXz, <<"a">> \o DotZip}

InitTree == Calls("tree", PipelineNames, {D, <<"E">>}, {1}) /\ hr = NoReader

\* Two calls running together on two destinations
InitShared ==
    /\ Calls("shared", {<<"a">> \o DotTar, <<"a">> \o DotTgz, <<"a">> \o DotZip},
             {D, <<"E">>, AddSuffix(D, ".tmp"), AddSuffix(D, ".tmp.zip")}, {1, 2})
    /\ hr = NoReader

\* A HashingReader over a stream
InitHash ==
    /\ Calls("any", {<<>>}, {D, <<"E">>}, {})
    /\ hr \in [pc : {"new"}, stream : Streams, fails : BOOLEAN, spec : Checksums,
                ret : {""}, pos : {0}, hasher : {0}, checksum : {<<>>}, at : {0}]

Next ==
    \E p \in Procs :
        \/ Inflate(p)
        \/ NewReader(p)
        \/ TarBegin(p)
        \/ TarHeader(p)
        \/ TarBadHeader(p)
        \/ TarEof(p)
        \/ OuterDrain(p)
        \/ ZipBegin(p)
        \/ ZipFile(p)
        \/ ZipEnd(p)

NextHash == HNew \/ HRead \/ HValidate

Spec == Init /\ [][Next]_vars

SpecTree == InitTree /\ [][Next]_vars

SpecShared == InitShared /\ [][Next]_vars

SpecHash == InitHash /\ [][NextHash]_vars

\* ------------------------------------------------------------------ claims

Started(p) == pc[p] # "idle"

Done(p) == pc[p] = "done"

\* Errors that come from the stream, not from what the archive holds
StreamErrors == {"header", "tar", "read", "zip"}

\* Nothing exists at or below path d
Absent(d) == \A q \in DOMAIN fs : ~Under(q, d)

\* C1: a call whose destination did not exist beforehand leaves nothing at or
\* under the destination until os.Rename has promoted the staging directory;
\* so a call that fails at a later entry returns with the destination absent.
C1_NothingAtDestinationBeforePromotion ==
    \A p \in Procs : (Started(p) /\ ~promoted[p]) => Absent(dest[p])

\* The name holds ".." as a component and, joined to the staging directory,
\* lies outside it (the claim's ../../etc/passwd)
Traverses(p, e) ==
    /\ \E i \in DOMAIN e.name : e.name[i] = ".."
    /\ ~Under(Join(tmp[p], e.name), tmp[p])

\* C2, for the names that leave the staging directory: a call that met such
\* an entry returned ensureFileInDir's containment error, and the destination
\* (absent beforehand) was not created.
C2_TraversalRejectedDestinationUntouched ==
    \A p \in Procs :
        (Done(p) /\ \E i \in DOMAIN read[p] : Traverses(p, read[p][i]))
            => (ret[p] = "outside" /\ Absent(dest[p]))

\* C3: until the staging directory is promoted, every path a call created or
\* wrote (its zip spool file aside) lies beneath the canonical staging
\* directory.
C3_WritesStayInStaging ==
    \A p \in Procs :
        ~promoted[p] => \A q \in touched[p] \ {spool[p]} : Under(q, tmp[p])

\* The tree of the round trip stands at d: the file with its bytes, the empty
\* directory, the symbolic link with its target text, the hard link being the
\* file's inode, and nothing else.
TreeAt(d) ==
    /\ {q \in DOMAIN fs : Under(q, d)} =
          {d} \cup {d \o e.name : e \in Tree}
    /\ IsDir(W, d)
    /\ IsFile(W, d \o TreeFile.name)
    /\ Content(W, d \o TreeFile.name) = TreeFile.data
    /\ IsDir(W, d \o TreeDir.name)
    /\ IsLink(W, d \o TreeSymlink.name)
    /\ fs[d \o TreeSymlink.name].to = TreeSymlink.link
    /\ IsFile(W, d \o TreeLink.name)
    /\ fs[d \o TreeLink.name].ino = fs[d \o TreeFile.name].ino

\* C4, for the tar formats: a call that read the whole archive packed from the
\* tree, in any order of its entries, and met no stream error, returned nil
\* and left the tree at the destination.
C4_RoundTrip ==
    \A p \in Procs :
        (Done(p) /\ scenario = "tree" /\ pipe[p] # "zip"
                 /\ Range(read[p]) = Tree /\ ret[p] \notin StreamErrors)
            => (ret[p] = "" /\ TreeAt(dest[p]))

\* C5: ValidateChecksum on a reader whose source does not fail returns nil
\* exactly when the checksum given is the lowercase hex digest of the whole
\* stream, and the mismatch error otherwise, whatever had been read before.
C5_ChecksumOfWholeStream ==
    (hr.pc = "validated" /\ ~hr.fails) =>
        /\ (hr.ret = "") <=> (hr.checksum = EncodeToString(Sha256(hr.stream)))
        /\ hr.ret \in {"", "mismatch"}

\* C5's case: a reader validated with nil after only a part of a stream of
\* several bytes had been read
C5_Witness ==
    /\ hr.pc = "validated"
    /\ hr.ret = ""
    /\ 0 < hr.at
    /\ hr.at < Len(hr.stream)

\* C6: in the tar pipelines the destination is visible only once the
\* original stream has been read to its end, and a read error while draining
\* it leaves the destination absent.
C6_DrainedBeforeRename ==
    \A p \in Procs :
        pipe[p] \in {"tar", "targz", "tarxz"} =>
            /\ promoted[p] => src[p] = "eof"
            /\ (Done(p) /\ ret[p] = "read") => Absent(dest[p])

\* The paths a call on destination d uses: the destination, the staging
\* directory d + ".tmp" and the zip spool file d + ".tmp.zip"
Uses(d) == {d, AddSuffix(d, ".tmp"), AddSuffix(d, ".tmp.zip")}

\* What stands at and below d in world w: each relative path with its kind,
\* bytes and link target
TreeOf(w, d) ==
    {[path |-> SubSeq(q, Len(d) + 1, Len(q)),
      k |-> w.fs[q].k,
      data |-> IF w.fs[q].k = "file" THEN Content(w, q) ELSE <<>>,
      to |-> IF w.fs[q].k = "link" THEN w.fs[q].to ELSE <<>>] :
        q \in {x \in DOMAIN w.fs : Under(x, d)}}

RECURSIVE Replay(_, _, _, _)
\* The entries call p read, from the i-th on, extracted into staging
\* directory t of world w with no other call running
Replay(w, p, t, i) ==
    IF i > Len(read[p]) THEN Ok(w)
    ELSE LET r == IF pipe[p] = "zip" THEN ZipEntry(w, t, read[p][i])
                  ELSE TarEntry(w, dest[p], t, read[p][i])
         IN  IF r.err # "" THEN r ELSE Replay(r.w, p, t, i + 1)

\* Call p on its own, from the empty filesystem, on the same stream: the
\* error it returns and the world it leaves
Alone(p) ==
    LET e == ensureDir(World(Fs0, <<>>), AddSuffix(dest[p], ".tmp"))
        sp == IF spool[p] = <<>> THEN <<>> ELSE AddSuffix(e.dir, ".zip")
        w1 == IF sp = <<>> THEN e.w ELSE CreateFile(e.w, sp, ZipBytes).w
        r == Replay(w1, p, e.dir, 1)
        mv == Rename(r.w, e.dir, dest[p])
        End(w, err) == Cleanup(Unspool(w, sp), e.dir, err)
    IN  IF ret[p] \in StreamErrors \cup {"unknown"} THEN
            [err |-> ret[p],
             w |-> IF tmp[p] = <<>> THEN World(Fs0, <<>>)
                   ELSE IF promoted[p] THEN End(mv.w, "")
                   ELSE End(r.w, ret[p])]
        ELSE IF r.err # "" THEN [err |-> r.err, w |-> End(r.w, r.err)]
        ELSE [err |-> mv.err, w |-> End(mv.w, mv.err)]

\* C7: of two calls running together on two different destinations, neither
\* creates, writes, moves or removes a path at or below one the other uses
\* (destination, staging directory, spool file), and each ends with the
\* result and the destination tree it has when it runs alone.
C7_CallsDoNotInterfere ==
    \A p \in Procs : \A o \in Procs \ {p} :
        (Started(p) /\ Started(o)) =>
            /\ \A q \in touched[p] : \A u \in Uses(dest[o]) : ~Under(q, u)
            /\ (Done(p) /\ Done(o)) =>
                  /\ ret[p] = Alone(p).err
                  /\ TreeOf(W, dest[p]) = TreeOf(Alone(p).w, dest[p])

\* C8: when a call returns, on every path, neither its staging directory
\* (destination + ".tmp") nor its spool file exists.
C8_StagingGoneOnEveryPath ==
    \A p \in Procs :
        Done(p) =>
            /\ ~Exists(W, AddSuffix(dest[p], ".tmp"))
            /\ spool[p] # <<>> => ~Exists(W, spool[p])

\* name ends with the characters suf
EndsWith(n, suf) == \E k \in 0..Len(n) : SubSeq(n, k + 1, Len(n)) = suf

\* C9: Inflate chooses by the end of the name alone: ".tar" runs InflateTar,
\* ".tar.gz" and ".tgz" InflateTarGz, ".tar.xz" InflateTarXz, ".zip"
\* InflateZip; any other name returns ErrUnknownArchiveFormat with no staging
\* directory made, nothing written and nothing read from the stream.
C9_DispatchBySuffix ==
    \A p \in Procs :
        pc[p] \notin {"idle", "call"} =>
            LET n == name[p]
            IN  /\ EndsWith(n, DotTar) => pipe[p] = "tar"
                /\ (EndsWith(n, DotTarGz) \/ EndsWith(n, DotTgz)) => pipe[p] = "targz"
                /\ EndsWith(n, DotTarXz) => pipe[p] = "tarxz"
                /\ EndsWith(n, DotZip) => pipe[p] = "zip"
                /\ pipe[p] = "tar" => pc[p] \in {"tar", "next", "done"}
                /\ pipe[p] \in {"targz", "tarxz"} =>
                      pc[p] \in {"newreader", "tar", "next", "outer", "done"}
                /\ pipe[p] = "zip" => pc[p] \in {"zip", "zipnext", "done"}
                /\ ~(\E suf \in {DotTar, DotTarGz, DotTgz, DotTarXz, DotZip} :
                        EndsWith(n, suf)) =>
                      /\ pc[p] = "done"
                      /\ ret[p] = "unknown"
                      /\ fs = Fs0
                      /\ tmp[p] = <<>>
                      /\ touched[p] = {}
                      /\ src[p] = "open"

\* C9's case: a name ending in ".tgz" whose archive InflateTarGz extracted
\* and promoted
C9_Witness ==
    /\ name[1] = <<"a">> \o DotTgz
    /\ pipe[1] = "targz"
    /\ promoted[1]
    /\ Done(1)

\* The entry writes a regular file under the name (every entry of a zip
\* that is not a directory does)
WritesFile(p, e) ==
    /\ e.kind = "reg" \/ (pipe[p] = "zip" /\ e.kind # "dir")
    /\ e.name # <<"pax_global_header">> \/ pipe[p] = "zip"

\* C10: after a successful extraction every regular file of the destination
\* tree holds exactly the payload of the last entry that names it.
C10_FileHoldsLastPayload ==
    \A p \in Procs :
        (Done(p) /\ ret[p] = "" /\ promoted[p]) =>
            \A i \in DOMAIN read[p] :
                LET e == read[p][i]
                    q == Join(dest[p], e.name)
                IN  (/\ WritesFile(p, e)
                     /\ IsFile(W, q)
                     /\ \A j \in DOMAIN read[p] :
                           (j > i /\ WritesFile(p, read[p][j]))
                               => Join(dest[p], read[p][j].name) # q)
                        => Content(W, q) = e.data

====
